---- MODULE Spec2Model ----
(***************************************************************************)
(* Model of src/recipe.py: class Recipes (ingredient catalog, ingredient  *)
(* co-occurrence network, pairing recommendations, most connected         *)
(* ingredient, recipe cache file) and the control flow of main().         *)
(*                                                                         *)
(* Strings are sequences of one-character strings, so that strip(),       *)
(* lower(), the regular expression of clean_ingredient_name, substring    *)
(* search and string ordering are computed character by character.        *)
(***************************************************************************)
EXTENDS Integers, Sequences, FiniteSets, Bags, TLC

VARIABLES
    recipes,            \* self.recipes: the corpus loaded from the cache file
    ingredient_list,    \* self.ingredient_list: dict id -> raw name, in dict order
    myRecipes_graph,    \* self.myRecipes_graph: the networkx Graph
    pc,                 \* position of main()
    outcome,            \* how the last query ended: "none", "returned", "ValueError"
    ingredient_name,    \* argument of the last get_ingredient_recommendations call
    top_n,              \* argument of the last get_ingredient_recommendations call
    matches,            \* local `matches` of the last call
    prompted,           \* TRUE iff the last call read a choice with input()
    ingredient_id,      \* local `ingredient_id` of the last call (0: not assigned)
    recommendations,    \* value returned by the last get_ingredient_recommendations
    most_connected,     \* value returned by the last get_most_connected_ingredient
    fileExists,         \* os.path.exists(fileName) of the cache file
    fileData,           \* the recipes stored in the cache file, as a bag
    fileValid           \* TRUE iff the cache file holds a JSON document

vars == << recipes, ingredient_list, myRecipes_graph, pc, outcome, ingredient_name,
           top_n, matches, prompted, ingredient_id, recommendations, most_connected,
           fileExists, fileData, fileValid >>

queryVars == << outcome, ingredient_name, top_n, matches, prompted, ingredient_id,
                recommendations, most_connected >>

cacheVars == << fileExists, fileData, fileValid >>

-----------------------------------------------------------------------------
(* Bounds of the model. *)

MaxRecipes == 2     \* recipes per corpus
MaxRecords == 3     \* ingredient records per corpus, over all its recipes
MaxTopN == 2        \* top_n ranges over 0..MaxTopN
LoopBlock == 10     \* entries of the cacheData loop evaluated per recursion block

-----------------------------------------------------------------------------
(* Characters and strings. *)

\* The characters of the model, in ASCII order.
Alphabet ==
    <<" ","(",")","+","-","0","1","2","3","4","5","6","7","8","9",
      "A","B","C","D","E","F","G","H","I","J","K","L","M","N","O","P","Q","R",
      "S","T","U","V","W","X","Y","Z","\\",
      "a","b","c","d","e","f","g","h","i","j","k","l","m","n","o","p","q","r",
      "s","t","u","v","w","x","y","z">>

CharCode(c) == CHOOSE i \in 1..Len(Alphabet) : Alphabet[i] = c

Digits == {"0","1","2","3","4","5","6","7","8","9"}

UpperCase == 16..41     \* positions of "A".."Z" in Alphabet

\* str.lower() on one character: "A".."Z" map to "a".."z" (27 places further).
LowerChar(c) == IF CharCode(c) \in UpperCase THEN Alphabet[CharCode(c) + 27] ELSE c

\* str.lower()
lower(s) == [i \in 1..Len(s) |-> LowerChar(s[i])]

RECURSIVE lstrip(_)
lstrip(s) == IF s # <<>> /\ Head(s) = " " THEN lstrip(Tail(s)) ELSE s

RECURSIVE rstrip(_)
rstrip(s) ==
    IF s # <<>> /\ s[Len(s)] = " " THEN rstrip(SubSeq(s, 1, Len(s) - 1)) ELSE s

\* str.strip()
strip(s) == rstrip(lstrip(s))

\* Python's `a in b` on strings.
IsSubstring(a, b) ==
    \E k \in 0..(Len(b) - Len(a)) : SubSeq(b, k + 1, k + Len(a)) = a

\* Python's `a < b` on strings: lexicographic on character codes.
RECURSIVE StrLess(_, _)
StrLess(a, b) ==
    IF b = <<>> THEN FALSE
    ELSE IF a = <<>> THEN TRUE
    ELSE IF Head(a) = Head(b) THEN StrLess(Tail(a), Tail(b))
    ELSE CharCode(Head(a)) < CharCode(Head(b))

-----------------------------------------------------------------------------
(* clean_ingredient_name: re.sub of one alternation, then strip().         *)

\* The literal alternatives of the pattern, in the pattern's order.
Literals ==
    << <<"t","s","p">>,
       <<"t","b","s","p">>,
       <<"o","z">>,
       <<"g">>,
       <<"k","g">>,
       <<"l","b","s">>,
       <<"c","m">>,
       <<"i","n","c","h">>,
       <<"c","u","p">>,
       <<"t","a","b","l","e","s","p","o","o","n">>,
       <<"t","e","a","s","p","o","o","n">>,
       <<"p","o","u","n","d">>,
       <<"g","r","a","m","s">>,
       <<"m","i","l","l","i","l","i","t","e","r">>,
       <<"l","i","t","e","r">>,
       <<"s","e","r","v","i","n","g">>,
       <<"t","o">>,
       <<"a","n","d">>,
       <<"f","r","o","m">>,
       <<"b","y">> >>

\* Length of the longest run of characters of `set` starting at s[i].
RECURSIVE RunLen(_, _, _)
RunLen(s, i, set) ==
    IF i <= Len(s) /\ s[i] \in set THEN 1 + RunLen(s, i + 1, set) ELSE 0

LiteralAt(s, i, lit) ==
    i + Len(lit) - 1 <= Len(s) /\ SubSeq(s, i, i + Len(lit) - 1) = lit

\* Length matched by the pattern at position i, 0 when it does not match there.
\* The alternatives are tried in order: \d+, the literals, \\+ (a run of
\* backslashes), \\- (a backslash and a minus), an opening and a closing parenthesis.
MatchLen(s, i) ==
    IF RunLen(s, i, Digits) > 0 THEN RunLen(s, i, Digits)
    ELSE IF \E k \in 1..Len(Literals) : LiteralAt(s, i, Literals[k])
    THEN Len(Literals[CHOOSE k \in 1..Len(Literals) :
                 /\ LiteralAt(s, i, Literals[k])
                 /\ \A h \in 1..(k - 1) : ~LiteralAt(s, i, Literals[h])])
    ELSE IF RunLen(s, i, {"\\"}) > 0 THEN RunLen(s, i, {"\\"})
    ELSE IF LiteralAt(s, i, <<"\\", "-">>) THEN 2
    ELSE IF s[i] \in {"(", ")"} THEN 1
    ELSE 0

\* re.sub(pattern, '', s) from position i on.
RECURSIVE ReSub(_, _)
ReSub(s, i) ==
    IF i > Len(s) THEN <<>>
    ELSE IF MatchLen(s, i) > 0 THEN ReSub(s, i + MatchLen(s, i))
    ELSE <<s[i]>> \o ReSub(s, i + 1)

clean_ingredient_name(ingredient) == strip(ReSub(ingredient, 1))

-----------------------------------------------------------------------------
(* Python dicts keep insertion order: a dict is a sequence of entries.      *)

DictKeys(d) == {d[i].id : i \in 1..Len(d)}

\* d[k] = v: a new key is appended, an existing key keeps its place.
DictSet(d, k, v) ==
    IF k \in DictKeys(d)
    THEN [i \in 1..Len(d) |-> IF d[i].id = k THEN [id |-> k, name |-> v] ELSE d[i]]
    ELSE Append(d, [id |-> k, name |-> v])

\* d.get(k, default)
DictGet(d, k, default) ==
    IF k \in DictKeys(d)
    THEN d[CHOOSE i \in 1..Len(d) : d[i].id = k].name
    ELSE default

\* Insert entry e into the sequence `sorted`, after every entry whose key is
\* not greater: sorted() is stable.
RECURSIVE InsertByName(_, _)
InsertByName(sorted, e) ==
    IF sorted = <<>> THEN <<e>>
    ELSE IF StrLess(lower(e.name), lower(Head(sorted).name))
    THEN <<e>> \o sorted
    ELSE <<Head(sorted)>> \o InsertByName(Tail(sorted), e)

\* sorted(items, key=lambda item: item[1].lower())
RECURSIVE SortedByName(_)
SortedByName(items) ==
    IF items = <<>> THEN <<>>
    ELSE InsertByName(SortedByName(SubSeq(items, 1, Len(items) - 1)),
                      items[Len(items)])

-----------------------------------------------------------------------------
(* build_ingredient_list                                                    *)

\* Body of the inner loop for one ingredient record; st = [seen, cleaned].
ListVisit(st, ingredient) ==
    LET cleaned_name == clean_ingredient_name(lower(strip(ingredient.name)))
    IN  IF cleaned_name \notin st.seen
        THEN [seen    |-> st.seen \cup {cleaned_name},
              cleaned |-> DictSet(st.cleaned, ingredient.id, ingredient.name)]
        ELSE st

\* The inner loop after the first i ingredients of a recipe.
RECURSIVE ListIngredients(_, _, _)
ListIngredients(st, ingredients, i) ==
    IF i = 0 THEN st
    ELSE ListVisit(ListIngredients(st, ingredients, i - 1), ingredients[i])

\* The outer loop after the first r recipes.
RECURSIVE ListRecipes(_, _)
ListRecipes(rs, r) ==
    IF r = 0 THEN [seen |-> {}, cleaned |-> <<>>]
    ELSE ListIngredients(ListRecipes(rs, r - 1), rs[r].extendedIngredients,
                         Len(rs[r].extendedIngredients))

\* The value assigned to self.ingredient_list.
BuildIngredientList(rs) == SortedByName(ListRecipes(rs, Len(rs)).cleaned)

-----------------------------------------------------------------------------
(* networkx.Graph: node dict (insertion ordered), node attributes,         *)
(* adjacency dicts (insertion ordered) and one data dict per edge, shared  *)
(* by both directions: the weight is keyed by the set of the endpoints.    *)

\* nx.Graph()
EmptyGraph ==
    [node |-> <<>>, attr |-> <<>>, adj |-> <<>>, weight |-> [e \in {} |-> 0]]

Range(s) == {s[i] : i \in 1..Len(s)}

has_node(G, n) == n \in Range(G.node)

\* Position of node n in G.node.
NodeIndex(G, n) == CHOOSE i \in 1..Len(G.node) : G.node[i] = n

\* G.neighbors(n), in the order of the adjacency dict of n.
Neighbors(G, n) == G.adj[NodeIndex(G, n)]

has_edge(G, u, v) == has_node(G, u) /\ v \in Range(Neighbors(G, u))

\* G[u][v]['weight']
Weight(G, u, v) == G.weight[{u, v}]

\* A node created without attributes (as add_edge creates a missing endpoint)
\* has attribute dict <<>>; one created by add_node(n, name=x) has <<x>>.
NewNode(G, n, attrs) ==
    IF has_node(G, n) THEN G
    ELSE [G EXCEPT !.node = Append(@, n),
                   !.attr = Append(@, attrs),
                   !.adj  = Append(@, <<>>)]


\* G.add_node(n, name=x), called only when n is not a node yet.
add_node(G, n, x) == NewNode(G, n, <<x>>)

\* adj[u][v] = datadict: v is appended to the neighbors of u unless it is there.
Link(G, u, v) ==
    IF v \in Range(Neighbors(G, u)) THEN G
    ELSE [G EXCEPT !.adj[NodeIndex(G, u)] = Append(@, v)]

SetWeight(G, u, v, w) ==
    [G EXCEPT !.weight =
        [e \in (DOMAIN G.weight) \cup {{u, v}} |->
            IF e = {u, v} THEN w ELSE G.weight[e]]]

\* G.add_edge(u, v, weight=w): missing endpoints become nodes without attributes.
add_edge(G, u, v, w) ==
    SetWeight(Link(Link(NewNode(NewNode(G, u, <<>>), v, <<>>), u, v), v, u), u, v, w)

-----------------------------------------------------------------------------
(* build_ingredient_network                                                 *)

\* The weight written for the pair (u, v) when the edge exists already.
Increment(G, u, v) == SetWeight(G, u, v, Weight(G, u, v) + 1)

\* `for other_ingredient in ingredients`, from entry j on, for ingredient i.
\* `ingredient != other_ingredient` compares the two records as dicts.
RECURSIVE NetworkOthers(_, _, _, _)
NetworkOthers(G, ingredients, i, j) ==
    IF j > Len(ingredients) THEN G
    ELSE IF ingredients[i] # ingredients[j]
    THEN IF ~has_edge(G, ingredients[i].id, ingredients[j].id)
         THEN NetworkOthers(add_edge(G, ingredients[i].id, ingredients[j].id, 1),
                            ingredients, i, j + 1)
         ELSE NetworkOthers(Increment(G, ingredients[i].id, ingredients[j].id),
                            ingredients, i, j + 1)
    ELSE NetworkOthers(G, ingredients, i, j + 1)

\* `for ingredient in ingredients`, from entry i on.
RECURSIVE NetworkIngredients(_, _, _)
NetworkIngredients(G, ingredients, i) ==
    IF i > Len(ingredients) THEN G
    ELSE IF ~has_node(G, ingredients[i].id)
    THEN NetworkIngredients(
             NetworkOthers(add_node(G, ingredients[i].id, ingredients[i].name),
                           ingredients, i, 1),
             ingredients, i + 1)
    ELSE NetworkIngredients(NetworkOthers(G, ingredients, i, 1), ingredients, i + 1)

\* `for recipe in self.recipes`, from recipe r on.
RECURSIVE NetworkRecipes(_, _, _)
NetworkRecipes(G, rs, r) ==
    IF r > Len(rs) THEN G
    ELSE NetworkRecipes(NetworkIngredients(G, rs[r].extendedIngredients, 1), rs, r + 1)

\* The value assigned to self.myRecipes_graph.
BuildIngredientNetwork(rs) == NetworkRecipes(EmptyGraph, rs, 1)

-----------------------------------------------------------------------------
(* get_most_connected_ingredient                                            *)

CoKeys(co) == {co[k].key : k \in 1..Len(co)}

\* One ingredient i of a recipe: create its entry if missing, then add the
\* names at every other position of the recipe to its set.
CoVisit(co, ingredients, i) ==
    LET co1 == IF ingredients[i] \notin CoKeys(co)
               THEN Append(co, [key |-> ingredients[i], set |-> {}])
               ELSE co
    IN  [k \in 1..Len(co1) |->
            IF co1[k].key = ingredients[i]
            THEN [co1[k] EXCEPT !.set =
                    @ \cup {ingredients[j] : j \in (1..Len(ingredients)) \ {i}}]
            ELSE co1[k]]

\* The loop over a recipe's names after the first i names.
RECURSIVE CoIngredients(_, _, _)
CoIngredients(co, ingredients, i) ==
    IF i = 0 THEN co
    ELSE CoVisit(CoIngredients(co, ingredients, i - 1), ingredients, i)

\* ingredients = [ingredient['name'].strip().lower() for ...]
RawNames(recipe) ==
    [i \in 1..Len(recipe.extendedIngredients) |->
        lower(strip(recipe.extendedIngredients[i].name))]

\* The loop over the recipes after the first r recipes.
RECURSIVE CoRecipes(_, _)
CoRecipes(rs, r) ==
    IF r = 0 THEN <<>>
    ELSE CoIngredients(CoRecipes(rs, r - 1), RawNames(rs[r]), Len(RawNames(rs[r])))

\* The local dict co_occurrence_graph after the loops.
CoOccurrenceGraph(rs) == CoRecipes(rs, Len(rs))

\* max(items, key=len of the set): the first item with the largest key.
MaxItem(co) ==
    co[CHOOSE k \in 1..Len(co) :
        /\ \A h \in 1..Len(co) : Cardinality(co[h].set) <= Cardinality(co[k].set)
        /\ \A h \in 1..(k - 1) : Cardinality(co[h].set) < Cardinality(co[k].set)]

NoResult == [name |-> <<>>, count |-> 0]

-----------------------------------------------------------------------------
(* get_ingredient_recommendations                                           *)

Unknown == <<"U","n","k","n","o","w","n">>

RECURSIVE SelectMatches(_, _)
SelectMatches(d, name) ==
    IF d = <<>> THEN <<>>
    ELSE (IF IsSubstring(lower(name), lower(Head(d).name)) THEN <<Head(d)>> ELSE <<>>)
         \o SelectMatches(Tail(d), name)

\* matches = [(id, name) for id, name in self.ingredient_list.items() if ...]
Matches(d, name) == SelectMatches(d, name)

\* The order of sorted(..., key=weight) without reverse=True.
PrecedesAscending(x, e) == x.weight <= e.weight

\* sorted(..., key=weight, reverse=True): entry x, already placed, stays before
\* the later entry e when its weight is not smaller (the sort is stable).
Precedes(x, e) == x.weight >= e.weight

RECURSIVE InsertByWeight(_, _)
InsertByWeight(sorted, e) ==
    IF sorted = <<>> THEN <<e>>
    ELSE IF Precedes(Head(sorted), e)
    THEN <<Head(sorted)>> \o InsertByWeight(Tail(sorted), e)
    ELSE <<e>> \o sorted

RECURSIVE SortedByWeight(_)
SortedByWeight(items) ==
    IF items = <<>> THEN <<>>
    ELSE InsertByWeight(SortedByWeight(SubSeq(items, 1, Len(items) - 1)),
                        items[Len(items)])

\* The local list `recommendations`: (catalog name or 'Unknown', weight) per neighbor.
Recommendations(G, d, id) ==
    SortedByWeight([k \in 1..Len(Neighbors(G, id)) |->
        [name   |-> DictGet(d, Neighbors(G, id)[k], Unknown),
         weight |-> Weight(G, id, Neighbors(G, id)[k])]])

Min(a, b) == IF a <= b THEN a ELSE b

\* lst[:n] for n >= 0
Slice(lst, n) == SubSeq(lst, 1, Min(n, Len(lst)))


-----------------------------------------------------------------------------
(* cacheData                                                                *)

FetchNumber == 100      \* params 'number' of fetchRecipe
CacheLimit == 1000      \* the size test of cacheData

\* The JSON list of the cache file is kept as a bag of recipes: cacheData
\* appends to the list, takes its len() and tests membership in it, and none
\* of these reads the order of the list.

\* `recipe['id'] not in existing_data` compares an int with each stored recipe,
\* a dict: in Python an int never equals a dict.
IntEqualsDict(n, d) == FALSE

IdInData(n, existing_data) ==
    \E d \in BagToSet(existing_data) : IntEqualsDict(n, d)

\* existing_data.append(recipe)
ListAppend(existing_data, recipe) == existing_data (+) SetToBag({recipe})

\* `for recipe in recipe_data_formatted['recipes']`, entries k..last.
\* existing_data_size was taken before the loop and is not updated by it, so
\* the loop breaks at its first iteration or not at all.
RECURSIVE CacheLoopTo(_, _, _, _, _)
CacheLoopTo(existing_data, existing_data_size, fetched, k, last) ==
    IF k > last THEN existing_data
    ELSE IF existing_data_size <= CacheLimit
    THEN IF ~IdInData(fetched[k].id, existing_data)
         THEN CacheLoopTo(ListAppend(existing_data, fetched[k]),
                          existing_data_size, fetched, k + 1, last)
         ELSE CacheLoopTo(existing_data, existing_data_size, fetched, k + 1, last)
    ELSE existing_data      \* break

\* The whole loop from entry k on, evaluated LoopBlock entries at a time so
\* that the recursion stays shallow.
RECURSIVE CacheLoop(_, _, _, _)
CacheLoop(existing_data, existing_data_size, fetched, k) ==
    IF k > Len(fetched) THEN existing_data
    ELSE CacheLoop(CacheLoopTo(existing_data, existing_data_size, fetched, k,
                               IF k + LoopBlock - 1 < Len(fetched)
                               THEN k + LoopBlock - 1 ELSE Len(fetched)),
                   existing_data_size, fetched, k + LoopBlock)

\* json.dump(lst, f): the list as stored.
ListToBag(lst) ==
    [d \in {lst[k] : k \in 1..Len(lst)} |->
        Cardinality({k \in 1..Len(lst) : lst[k] = d})]

\* fetchRecipe: the parsed response on status 200, None (no return) otherwise.
None == [ok |-> FALSE, recipes |-> <<>>]

\* A response of FetchNumber recipes with consecutive ids from `start` on.
Response(start) ==
    [ok |-> TRUE,
     recipes |-> [k \in 1..FetchNumber |->
                    [id |-> start + k - 1, extendedIngredients |-> <<>>]]]

\* The responses of the model: three overlapping ranges of recipe ids.
FetchStarts == {1, 51, 101}

FetchResults == {None} \cup {Response(start) : start \in FetchStarts}

cacheData(fetched) ==
    /\ pc = "cache"
    /\ IF ~fileExists
       THEN \* open(fileName, 'w') creates the file before the fetch
            /\ fileExists' = TRUE
            /\ IF fetched.ok
               THEN /\ fileData' = ListToBag(fetched.recipes)
                    /\ fileValid' = TRUE
                    /\ outcome' = "returned"
               ELSE \* None["recipes"] raises; the file stays empty
                    /\ fileData' = EmptyBag
                    /\ fileValid' = FALSE
                    /\ outcome' = "TypeError"
       ELSE LET existing_data == IF fileValid THEN fileData ELSE EmptyBag
            IN  /\ fileExists' = fileExists
                /\ IF fetched.ok
                   THEN /\ fileData' = CacheLoop(existing_data,
                                                 BagCardinality(existing_data),
                                                 fetched.recipes, 1)
                        /\ fileValid' = TRUE
                        /\ outcome' = "returned"
                   ELSE \* None['recipes'] raises before the file is rewritten
                        /\ UNCHANGED << fileData, fileValid >>
                        /\ outcome' = "TypeError"
    /\ UNCHANGED << recipes, ingredient_list, myRecipes_graph, pc, ingredient_name,
                    top_n, matches, prompted, ingredient_id, recommendations,
                    most_connected >>

-----------------------------------------------------------------------------
(* The corpora of the model.                                                *)

Butter2Tbsp == <<"2"," ","t","b","s","p"," ","B","u","t","t","e","r">>
Butter == <<"b","u","t","t","e","r">>
Salt == <<" ","S","a","l","t">>

\* The ingredient records of the model: id 1 under two names, two ids whose
\* names clean to the same key ("butter"), and one name under two ids.
Records ==
    {[id |-> 1, name |-> Butter2Tbsp], [id |-> 1, name |-> Salt],
     [id |-> 2, name |-> Butter], [id |-> 3, name |-> Salt]}

IngredientLists(records, t) == UNION {[1..l -> records] : l \in 0..t}

\* The ingredient lists of at most m recipes holding at most t records in all.
RECURSIVE CorpusShapes(_, _, _)
CorpusShapes(records, m, t) ==
    IF m = 0 THEN {<<>>}
    ELSE {<<>>} \cup
         UNION {{<<ing>> \o c : c \in CorpusShapes(records, m - 1, t - Len(ing))} :
                ing \in IngredientLists(records, t)}

\* Recipes as the program reads them: a recipe id and 'extendedIngredients'.
Corpus(shape) ==
    [r \in 1..Len(shape) |-> [id |-> r, extendedIngredients |-> shape[r]]]

Corpora(records, m, t) == {Corpus(shape) : shape \in CorpusShapes(records, m, t)}

PartialNames == {<<>>, <<"s","a","l","t">>, <<"b","u","t">>}

-----------------------------------------------------------------------------
(* Initial states: the state after Recipes(cacheFile=...) in main().        *)

NoQuery ==
    /\ outcome = "none"
    /\ ingredient_name = <<>>
    /\ top_n = 0
    /\ matches = <<>>
    /\ prompted = FALSE
    /\ ingredient_id = 0
    /\ recommendations = <<>>
    /\ most_connected = NoResult

\* The file cacheData maintains, before its first call.
NoCacheFile ==
    /\ fileExists = FALSE
    /\ fileValid = FALSE
    /\ fileData = EmptyBag

\* __init__ with a cache file: loadCache assigns the recipes it reads, and
\* self.recipes is empty when there is nothing to read.  myRecipes_graph is not
\* set yet; the empty graph stands for it until build_ingredient_network
\* assigns it.
Constructed(corpora) ==
    /\ recipes \in corpora
    /\ NoCacheFile
    /\ ingredient_list = <<>>
    /\ myRecipes_graph = EmptyGraph
    /\ pc = "start"
    /\ NoQuery

Init == Constructed(Corpora(Records, MaxRecipes, MaxRecords))

\* A program that only maintains the cache file, which does not exist at first.
InitCache ==
    /\ NoCacheFile
    /\ recipes = <<>>
    /\ ingredient_list = <<>>
    /\ myRecipes_graph = EmptyGraph
    /\ pc = "cache"
    /\ NoQuery

-----------------------------------------------------------------------------
(* The steps of main().                                                     *)

build_ingredient_network ==
    /\ pc = "start"
    /\ myRecipes_graph' = BuildIngredientNetwork(recipes)
    /\ pc' = "network"
    /\ UNCHANGED << recipes, ingredient_list, queryVars, cacheVars >>

build_ingredient_list ==
    /\ pc = "network"
    /\ ingredient_list' = BuildIngredientList(recipes)
    /\ pc' = "menu"
    /\ UNCHANGED << recipes, myRecipes_graph, queryVars, cacheVars >>

\* The part of a call after the choice: `id` is the resolved ingredient.
Recommend(name, n, m, id) ==
    /\ ingredient_name' = name
    /\ top_n' = n
    /\ matches' = m
    /\ prompted' = TRUE
    /\ ingredient_id' = id
    /\ IF ~has_node(myRecipes_graph, id)
       THEN \* G.neighbors(id) raises for an id that is no node
            /\ recommendations' = <<>>
            /\ outcome' = "NetworkXError"
            /\ pc' = "crashed"
       ELSE /\ recommendations' =
                  IF Neighbors(myRecipes_graph, id) = <<>>
                  THEN <<>>
                  ELSE Slice(Recommendations(myRecipes_graph, ingredient_list, id), n)
            /\ outcome' = "returned"
            /\ pc' = "recommended"

\* One call get_ingredient_recommendations(name, n).  Without a match it
\* returns []; otherwise the loop `while True: choice = int(input(...))` runs,
\* whatever the number of matches, until a choice in 1..len(matches) is
\* entered: `choice` is that accepted input.
get_ingredient_recommendations(name, n) ==
    /\ pc = "menu"
    /\ LET m == Matches(ingredient_list, name)
       IN  IF m = <<>>
           THEN /\ ingredient_name' = name
                /\ top_n' = n
                /\ matches' = m
                /\ prompted' = FALSE
                /\ ingredient_id' = 0
                /\ recommendations' = <<>>
                /\ outcome' = "returned"
                /\ pc' = "recommended"
           ELSE \E choice \in 1..Len(m) : Recommend(name, n, m, m[choice].id)
    /\ UNCHANGED << recipes, ingredient_list, myRecipes_graph, most_connected,
                    cacheVars >>

get_most_connected_ingredient ==
    /\ pc = "menu"
    /\ LET co_occurrence_graph == CoOccurrenceGraph(recipes)
       IN  IF co_occurrence_graph = <<>>
           THEN \* max() of an empty sequence raises ValueError, which ends main()
                /\ most_connected' = NoResult
                /\ outcome' = "ValueError"
                /\ pc' = "crashed"
           ELSE /\ most_connected' =
                      [name  |-> MaxItem(co_occurrence_graph).key,
                       count |-> Cardinality(MaxItem(co_occurrence_graph).set)]
                /\ outcome' = "returned"
                /\ pc' = "connected"
    /\ UNCHANGED << recipes, ingredient_list, myRecipes_graph, ingredient_name, top_n,
                    matches, prompted, ingredient_id, recommendations, cacheVars >>

\* The locals and the return value of the last query are gone.
Forget ==
    /\ outcome' = "none"
    /\ ingredient_name' = <<>>
    /\ top_n' = 0
    /\ matches' = <<>>
    /\ prompted' = FALSE
    /\ ingredient_id' = 0
    /\ recommendations' = <<>>
    /\ most_connected' = NoResult

\* "Do you need more help": yes returns to the menu.
MoreHelp ==
    /\ pc \in {"recommended", "connected"}
    /\ pc' = "menu"
    /\ Forget
    /\ UNCHANGED << recipes, ingredient_list, myRecipes_graph, cacheVars >>

\* Any other answer leaves the loop and main() returns.
Exit ==
    /\ pc \in {"recommended", "connected"}
    /\ pc' = "exit"
    /\ Forget
    /\ UNCHANGED << recipes, ingredient_list, myRecipes_graph, cacheVars >>

Next ==
    \/ build_ingredient_network
    \/ build_ingredient_list
    \/ \E name \in PartialNames, n \in 0..MaxTopN :
          get_ingredient_recommendations(name, n)
    \/ get_most_connected_ingredient
    \/ MoreHelp
    \/ Exit

NextCache == \E fetched \in FetchResults : cacheData(fetched)

Spec == Init /\ [][Next]_vars

SpecCache == InitCache /\ [][NextCache]_vars

-----------------------------------------------------------------------------
(* Properties.                                                              *)

\* The ingredient lists of the corpus.
IngredientsOf(r) == recipes[r].extendedIngredients

\* All ingredient records of the corpus, in corpus order.
RECURSIVE Flatten(_)
Flatten(rs) ==
    IF rs = <<>> THEN <<>> ELSE Head(rs).extendedIngredients \o Flatten(Tail(rs))

AllRecords == Flatten(recipes)

CorpusIds == {AllRecords[k].id : k \in 1..Len(AllRecords)}

NetworkBuilt == pc \notin {"start", "cache"}

ListBuilt == pc \notin {"start", "network", "cache"}

\* Recipes whose ingredient list holds u and v at two different positions.
RecipesWithBoth(u, v) ==
    {r \in 1..Len(recipes) :
        \E i, j \in 1..Len(IngredientsOf(r)) :
            /\ i # j
            /\ IngredientsOf(r)[i].id = u
            /\ IngredientsOf(r)[j].id = v}

\* C1: after build_ingredient_network, the weight of every edge between two
\* distinct ids u and v is the number of recipes that list both u and v.
C1_WeightIsRecipeCount ==
    NetworkBuilt =>
        \A u, v \in Range(myRecipes_graph.node) :
            (u # v /\ has_edge(myRecipes_graph, u, v)) =>
                Weight(myRecipes_graph, u, v) = Cardinality(RecipesWithBoth(u, v))

\* C2: after build_ingredient_network, no node has an edge to itself.
C2_NoSelfLoops ==
    NetworkBuilt =>
        \A u \in Range(myRecipes_graph.node) : ~has_edge(myRecipes_graph, u, u)

\* C3: with an empty corpus the catalog is empty, the graph has no nodes and
\* every query returns an empty result; none raises an error.
C3_EmptyCorpusQueriesReturn ==
    (recipes = <<>> /\ pc # "cache") =>
        /\ ListBuilt => ingredient_list = <<>>
        /\ NetworkBuilt => myRecipes_graph.node = <<>>
        /\ outcome \in {"none", "returned"}
        /\ pc # "crashed"
        /\ recommendations = <<>>
        /\ most_connected = NoResult

CleanedKey(record) == clean_ingredient_name(lower(strip(record.name)))

CleanedKeys == {CleanedKey(AllRecords[k]) : k \in 1..Len(AllRecords)}

\* The first record of the corpus with the cleaned key `key`.
FirstWithKey(key) ==
    AllRecords[CHOOSE k \in 1..Len(AllRecords) :
        /\ CleanedKey(AllRecords[k]) = key
        /\ \A h \in 1..(k - 1) : CleanedKey(AllRecords[h]) # key]

\* C4: after build_ingredient_list, the catalog has exactly one entry per
\* distinct cleaned key: the id of the first record with that key, mapped to
\* that record's raw name.
C4_OneEntryPerCleanedKey ==
    ListBuilt =>
        /\ Len(ingredient_list) = Cardinality(CleanedKeys)
        /\ \A key \in CleanedKeys :
              [id |-> FirstWithKey(key).id, name |-> FirstWithKey(key).name]
                  \in Range(ingredient_list)

\* A call that resolved an ingredient with at least one neighbor and returned.
Recommended ==
    /\ pc = "recommended"
    /\ ingredient_id # 0
    /\ Neighbors(myRecipes_graph, ingredient_id) # <<>>

NeighborSet == Range(Neighbors(myRecipes_graph, ingredient_id))

\* C5: for a resolved node with n >= 1 neighbors the call returns min(top_n, n)
\* pairs in non-increasing order of weight, each pair being the name and the
\* edge weight of a different neighbor, and no neighbor left out weighs more
\* than a returned one.
C5_TopNeighborsByWeight ==
    Recommended =>
        /\ Len(recommendations) = Min(top_n, Cardinality(NeighborSet))
        /\ \A k \in 1..(Len(recommendations) - 1) :
              recommendations[k].weight >= recommendations[k + 1].weight
        /\ \E pick \in [1..Len(recommendations) -> NeighborSet] :
              /\ \A k, h \in 1..Len(recommendations) : pick[k] = pick[h] => k = h
              /\ \A k \in 1..Len(recommendations) :
                    /\ recommendations[k].weight =
                           Weight(myRecipes_graph, ingredient_id, pick[k])
                    /\ recommendations[k].name =
                           DictGet(ingredient_list, pick[k], Unknown)
              /\ \A left \in NeighborSet \ Range(pick) :
                    \A k \in 1..Len(recommendations) :
                        Weight(myRecipes_graph, ingredient_id, left)
                            <= recommendations[k].weight

\* A call that cut the list (1 <= top_n < n) and whose sort moved a neighbor
\* ahead of the first neighbor of the adjacency order.
C5_Witness ==
    /\ Recommended
    /\ top_n >= 1
    /\ top_n < Cardinality(NeighborSet)
    /\ Len(recommendations) = top_n
    /\ recommendations[1].weight >
           Weight(myRecipes_graph, ingredient_id,
                  Neighbors(myRecipes_graph, ingredient_id)[1])

\* The trimmed, lowercased raw names of the corpus, in corpus order.
CorpusNames == [k \in 1..Len(AllRecords) |-> lower(strip(AllRecords[k].name))]

\* The other raw names appearing in the same recipes as `name`.
OtherNames(name) ==
    {other \in Range(CorpusNames) :
        /\ other # name
        /\ \E r \in 1..Len(recipes) : {name, other} \subseteq Range(RawNames(recipes[r]))}

\* The first name, in corpus order, whose set of other names is largest.
FirstMostConnected ==
    CorpusNames[CHOOSE k \in 1..Len(CorpusNames) :
        /\ \A h \in 1..Len(CorpusNames) :
              Cardinality(OtherNames(CorpusNames[h]))
                  <= Cardinality(OtherNames(CorpusNames[k]))
        /\ \A h \in 1..(k - 1) :
              Cardinality(OtherNames(CorpusNames[h]))
                  < Cardinality(OtherNames(CorpusNames[k]))]

MostConnectedCalled == pc = "connected" \/ outcome = "ValueError"

\* C6: on a non-empty corpus get_most_connected_ingredient returns the name
\* with the largest set of other names in its recipes, the first such name in
\* corpus order, and the size of that set.
C6_FirstLargestNeighborSet ==
    (MostConnectedCalled /\ recipes # <<>>) =>
        /\ outcome = "returned"
        /\ most_connected.name = FirstMostConnected
        /\ most_connected.count = Cardinality(OtherNames(FirstMostConnected))

\* The first record of the corpus with ingredient id n.
FirstWithId(n) ==
    AllRecords[CHOOSE k \in 1..Len(AllRecords) :
        /\ AllRecords[k].id = n
        /\ \A h \in 1..(k - 1) : AllRecords[h].id # n]

\* C7: after build_ingredient_network the graph has exactly one node per
\* distinct ingredient id, and every node carries the raw name of the first
\* occurrence of its id as its name attribute.
C7_NodesNamedByFirstOccurrence ==
    NetworkBuilt =>
        /\ Range(myRecipes_graph.node) = CorpusIds
        /\ Len(myRecipes_graph.node) = Cardinality(CorpusIds)
        /\ \A k \in 1..Len(myRecipes_graph.node) :
              myRecipes_graph.attr[k] = <<FirstWithId(myRecipes_graph.node[k]).name>>

\* Number of recipes of the cache file with recipe id n.
StoredWithId(n) ==
    LET same == {d \in BagToSet(fileData) : d.id = n}
    IN  IF same = {} THEN 0 ELSE BagCardinality([d \in same |-> fileData[d]])

\* C8: the cache file never holds two recipes with the same recipe id.
C8_NoDuplicateRecipeIds ==
    \A d \in BagToSet(fileData) : StoredWithId(d.id) = 1

DocumentedCap == 1099   \* the docstring of cacheData

\* C9: the cache file never holds more than 1099 recipes.
C9_CacheWithinCap == BagCardinality(fileData) <= DocumentedCap

\* C10: with exactly one match the entry is used without asking for a choice;
\* a choice is asked for only with two or more matches.
C10_SingleMatchNotPrompted ==
    pc = "recommended" =>
        /\ Len(matches) = 1 => (~prompted /\ ingredient_id = matches[1].id)
        /\ prompted => Len(matches) >= 2

====
